---- MODULE Spec2Model ----
(***************************************************************************)
(* GenericSolver (internal/src/laser_loop_closure/src/GenericSolver.cc):   *)
(* the incremental pose-graph solver.  Poses are modelled in one           *)
(* dimension: a Pose3 is an integer, composition is addition, between is   *)
(* subtraction, the identity is 0.  Covariances are integers counted in    *)
(* halves, so that the inverse of a square-root information R in {1, 2}    *)
(* is representable.                                                       *)
(***************************************************************************)
EXTENDS Integers, Sequences, FiniteSets, TLC

VARIABLES
  nfg_,                       \* combined factor graph: sequence of slots
  values_,                    \* Values: key -> pose
  nfg_odom_,                  \* odometry factors
  nfg_lc_,                    \* accepted loop-closure factors
  trajectory_poses,           \* posesAndCovariances_odom_.trajectory_poses
  start_id,                   \* posesAndCovariances_odom_.start_id
  end_id,                     \* posesAndCovariances_odom_.end_id
  solver_type_,               \* configured solver type
  last,                       \* the update call just made: its input and what it did
  calls,                      \* number of update calls made so far
  removed_,                   \* the factors update has reset in the combined graph so far
  pc,                         \* per thread: the statement of update it is at
  job,                        \* per thread: the arguments of its update call
  loc,                        \* per thread: the local variables of its update call
  serialized,                 \* whether the callers serialize their update calls
  origin,                     \* the solver as it was before the threads' calls
  input_queue_,               \* IcpLoopComputation: loop candidates to process
  output_queue_,              \* IcpLoopComputation: computed loop-closure edges
  keyed_scans_,               \* IcpLoopComputation: key -> scan
  scan_msg,                   \* the KeyedScan message received last
  icp_entry,                  \* the handler IcpLoopComputation ran last, the queues it found
  icp_init,                   \* IcpLoopComputation::Initialize: whether called, steps run, result
  imu_buffer_,                \* ImuHandler: timestamp -> quaternion
  buffer_size_limit_,         \* ImuHandler: configured buffer limit
  ts_threshold_,              \* ImuHandler: configured lookup threshold
  imu_call,                   \* the ImuHandler call made last: input, result, buffer before
  b_has_new_factor_,          \* LampBaseStation: a new factor awaits publication
  b_run_optimization_,        \* LampBaseStation: an optimization was requested
  station_init,               \* LampBaseStation::Initialize: whether called, steps run, result
  timer_call,                 \* the last ProcessTimerCallback: flags at entry, what it published
  published,                  \* publications so far: pose graph, map, graph for the optimizer
  raised                      \* how often each flag has been raised so far

solverVars == <<nfg_, values_, nfg_odom_, nfg_lc_, trajectory_poses, start_id, end_id,
                solver_type_>>
callVars == <<last, calls, removed_>>
threadVars == <<pc, job, loc, serialized, origin>>
icpVars == <<input_queue_, output_queue_, keyed_scans_, scan_msg, icp_entry, icp_init>>
imuVars == <<imu_buffer_, buffer_size_limit_, ts_threshold_, imu_call>>
stationVars == <<b_has_new_factor_, b_run_optimization_, station_init, timer_call,
                 published, raised>>

vars == <<nfg_, values_, nfg_odom_, nfg_lc_, trajectory_poses, start_id, end_id,
          solver_type_, last, calls, removed_, pc, job, loc, serialized, origin,
          input_queue_, output_queue_, keyed_scans_, scan_msg, icp_entry, icp_init,
          imu_buffer_, buffer_size_limit_, ts_threshold_, imu_call,
          b_has_new_factor_, b_run_optimization_, station_init, timer_call,
          published, raised>>

-----------------------------------------------------------------------------
(* Bounds of the model *)

\* update calls in one run
MaxCalls == 3

-----------------------------------------------------------------------------
(* Keys, poses, factors *)

PoseKeys == {"x0", "x1", "x2"}
LandmarkKeys == {"l0"}
Keys == PoseKeys \cup LandmarkKeys

\* a key that names no node of the run (what an indeterminate key may read as)
NoKey == "none"
\* the value of a gtsam::Key that was value-initialized and never assigned
ZeroKey == "zero"
\* start_id / end_id before anything assigned them
Indeterminate == "indeterminate"

\* gtsam::Symbol(key).chr()
chr(k) == IF k \in LandmarkKeys THEN "l" ELSE "x"

\* the order std::map and gtsam::Values iterate keys in ('l' < 'x', then index)
KeyRank(k) == CASE k = "l0" -> 0 [] k = "x0" -> 1 [] k = "x1" -> 2 [] k = "x2" -> 3
                [] OTHER -> 4

EmptyMap == [k \in {} |-> 0]

Put(m, k, v) == [x \in (DOMAIN m) \cup {k} |-> IF x = k THEN v ELSE m[x]]

\* values.keys(): the keys of a Values in iteration order
RECURSIVE SortedKeys(_)
SortedKeys(ks) ==
  IF ks = {} THEN <<>>
  ELSE LET k == CHOOSE a \in ks : \A b \in ks : KeyRank(a) <= KeyRank(b)
       IN <<k>> \o SortedKeys(ks \ {k})

keys(values) == SortedKeys(DOMAIN values)
size(values) == Cardinality(DOMAIN values)

\* a reset (inert) slot of a factor graph
NullFactor == [keys |-> <<>>, type |-> "null", pose |-> 0, R |-> 1]

PriorFactor(k, p, r) == [keys |-> <<k>>, type |-> "Prior", pose |-> p, R |-> r]
BetweenFactor(i, j, p, r) == [keys |-> <<i, j>>, type |-> "Between", pose |-> p, R |-> r]
UnaryFactor(k) == [keys |-> <<k>>, type |-> "Unary", pose |-> 0, R |-> 1]

front(f) == f.keys[1]
back(f) == f.keys[Len(f.keys)]

\* gtsam::inverse(noiseModel->R()), in halves
inverse(R) == 2 \div R

\* a default-constructed graph_utils::PoseWithCovariance
DefaultPoseWithCovariance == [pose |-> 0, cov |-> 0]
\* a value-initialized graph_utils::TrajectoryPose (what map::operator[] inserts)
DefaultTrajectoryPose == [pose |-> DefaultPoseWithCovariance, id |-> ZeroKey]

\* graph_utils::poseCompose: chain b onto a, covariances propagated
poseCompose(a, b) == [pose |-> a.pose + b.pose, cov |-> a.cov + b.cov]
\* graph_utils::poseBetween: inverse(a) composed with b
poseBetween(a, b) == [pose |-> b.pose - a.pose, cov |-> a.cov + b.cov]

-----------------------------------------------------------------------------
(* The solver object as one record, and what a call returns *)

State == [values |-> values_, nfg |-> nfg_, odom |-> nfg_odom_, lc |-> nfg_lc_,
          traj |-> trajectory_poses, start |-> start_id, end |-> end_id,
          solver_type |-> solver_type_]

\* the call returned normally
Returned(S, opt) == [opt |-> opt, st |-> S, outcome |-> "returned"]
\* an exception left the call, with the object as it was at the throw
Thrown(S, opt) == [opt |-> opt, st |-> S, outcome |-> "threw"]
\* the process died inside the call (how: "assert" or "segv")
Died(S, how) == [opt |-> <<>>, st |-> S, outcome |-> how]

-----------------------------------------------------------------------------
(* The external nonlinear solver (gtsam), a black box *)

\* what the solver may do in one invocation: fail (throw), or succeed and
\* move every estimate by `shift`
SolverBehaviours == {[ok |-> FALSE, shift |-> 0], [ok |-> TRUE, shift |-> 1]}

Live(g) == {i \in 1..Len(g) : g[i].type # "null"}
GraphKeys(g) == UNION {{g[i].keys[n] : n \in 1..Len(g[i].keys)} : i \in Live(g)}

\* Optimizer(graph, init, params).optimize(): the invocations possible, each
\* a record.  Linearizing a factor whose key is absent from the initial
\* values throws.
Optimize(algo, graph, init) ==
  {LET ok == sb.ok /\ GraphKeys(graph) \subseteq DOMAIN init
   IN [ok |-> ok, algo |-> algo, graph |-> graph, init |-> init,
       result |-> IF ok THEN [k \in DOMAIN init |-> init[k] + sb.shift] ELSE init]
   : sb \in SolverBehaviours}

-----------------------------------------------------------------------------
(* GenericSolver::regularUpdate *)

\* for (size_t index : factorsToRemove) nfg_[index].reset();
\* FactorGraph::operator[] is at(): an index past the end throws
RECURSIVE RemoveFactors(_, _)
RemoveFactors(g, rm) ==
  IF rm = <<>> THEN [ok |-> TRUE, g |-> g]
  ELSE IF Head(rm) >= Len(g) THEN [ok |-> FALSE, g |-> g]
  ELSE RemoveFactors([g EXCEPT ![Head(rm) + 1] = NullFactor], Tail(rm))

\* values_.insert(values): key by key, a key already present throws
RECURSIVE InsertSeq(_, _, _)
InsertSeq(v, new, ks) ==
  IF ks = <<>> THEN [v |-> v, ok |-> TRUE]
  ELSE IF Head(ks) \in DOMAIN v THEN [v |-> v, ok |-> FALSE]
  ELSE InsertSeq(Put(v, Head(ks), new[Head(ks)]), new, Tail(ks))

InsertValues(v, new) == InsertSeq(v, new, keys(new))

\* lines 30-52 without line 49: an update that adds nothing still optimizes
DoOptimize_NoEmptyRule(nfg, values, rm) ==
  LET d0 == TRUE
      d1 == IF Len(nfg) = 1 /\ size(values) = 1 /\ chr(keys(values)[1]) # "l"
            THEN FALSE ELSE d0
  IN IF Len(rm) > 0 THEN TRUE ELSE d1

\* lines 30-52: whether regularUpdate optimizes
DoOptimize(nfg, values, rm) ==
  LET d0 == TRUE
      d1 == IF Len(nfg) = 1 /\ size(values) = 1 /\ chr(keys(values)[1]) # "l"
            THEN FALSE ELSE d0
      d2 == IF Len(nfg) = 0 /\ size(values) = 0 THEN FALSE ELSE d1
  IN IF Len(rm) > 0 THEN TRUE ELSE d2

\* lines 54-71: the optimizer selected by solver_type_
RunConfiguredSolver(S) ==
  IF S.solver_type \in {1, 2}
  THEN {IF o.ok THEN Returned([S EXCEPT !.values = o.result], <<o>>) ELSE Thrown(S, <<o>>)
        : o \in Optimize(IF S.solver_type = 1 THEN "LM" ELSE "GN", S.nfg, S.values)}
  ELSE {Returned(S, <<>>)}

\* the ways one call of regularUpdate can end
regularUpdate(S, nfg, values, rm) ==
  LET r == RemoveFactors(S.nfg, rm)
      S1 == [S EXCEPT !.nfg = r.g]
      S2 == [S1 EXCEPT !.nfg = @ \o nfg]
      i == InsertValues(S.values, values)
      S3 == [S2 EXCEPT !.values = i.v]
  IN IF ~r.ok THEN {Thrown(S1, <<>>)}
     ELSE IF ~i.ok THEN {Thrown(S3, <<>>)}
     ELSE IF DoOptimize(nfg, values, rm) THEN RunConfiguredSolver(S3)
     ELSE {Returned(S3, <<>>)}

-----------------------------------------------------------------------------
(* GenericSolver::initializePrior, updateOdom, isOdomConsistent, findInliers *)

\* initializePrior without line 92: end_id is left as it was
initializePrior_NoEndKey(S, prior_factor) ==
  LET initial_pose == [pose |-> prior_factor.pose, cov |-> inverse(prior_factor.R)]
      initial_key == front(prior_factor)
      entry == IF initial_key \in DOMAIN S.traj THEN S.traj[initial_key]
               ELSE DefaultTrajectoryPose
  IN [S EXCEPT !.traj = Put(S.traj, initial_key, [entry EXCEPT !.pose = initial_pose]),
               !.start = initial_key]

initializePrior(S, prior_factor) ==
  LET initial_pose == [pose |-> prior_factor.pose, cov |-> inverse(prior_factor.R)]
      initial_key == front(prior_factor)
      entry == IF initial_key \in DOMAIN S.traj THEN S.traj[initial_key]
               ELSE DefaultTrajectoryPose
  IN [S EXCEPT !.traj = Put(S.traj, initial_key, [entry EXCEPT !.pose = initial_pose]),
               !.start = initial_key,
               !.end = initial_key]

\* the keys an end_id may read as: itself once assigned, anything before
ReadKey(id) == IF id = Indeterminate THEN Keys \cup {NoKey} ELSE {id}

\* updateOdom reading the latest pose with trajectory_poses[latest_key]
\* instead of at(): an absent key gets a value-initialized entry, nothing throws
updateOdom_Subscript(S, odom_factor, latest_key) ==
  LET odom_delta == [pose |-> odom_factor.pose, cov |-> inverse(odom_factor.R)]
      new_key == back(odom_factor)
      traj1 == IF latest_key \in DOMAIN S.traj THEN S.traj
               ELSE Put(S.traj, latest_key, DefaultTrajectoryPose)
      new_pose == poseCompose(traj1[latest_key].pose, odom_delta)
  IN [st |-> [S EXCEPT !.end = new_key,
                       !.traj = Put(traj1, new_key, [pose |-> new_pose, id |-> new_key])],
      ok |-> TRUE,
      new_pose |-> new_pose]

\* updateOdom composing the measurement onto the start pose instead of the
\* latest one
updateOdom_FromStart(S, odom_factor, latest_key) ==
  LET odom_delta == [pose |-> odom_factor.pose, cov |-> inverse(odom_factor.R)]
      new_key == back(odom_factor)
  IN IF latest_key \notin DOMAIN S.traj \/ S.start \notin DOMAIN S.traj
     THEN [st |-> S, ok |-> FALSE, new_pose |-> DefaultPoseWithCovariance]
     ELSE LET new_pose == poseCompose(S.traj[S.start].pose, odom_delta)
          IN [st |-> [S EXCEPT !.end = new_key,
                               !.traj = Put(S.traj, new_key,
                                            [pose |-> new_pose, id |-> new_key])],
              ok |-> TRUE,
              new_pose |-> new_pose]

\* updateOdom with end_id read as latest_key; trajectory_poses.at() throws
\* on a key without an entry.  [st, ok, new_pose]
updateOdom(S, odom_factor, latest_key) ==
  LET odom_delta == [pose |-> odom_factor.pose, cov |-> inverse(odom_factor.R)]
      new_key == back(odom_factor)
  IN IF latest_key \notin DOMAIN S.traj
     THEN [st |-> S, ok |-> FALSE, new_pose |-> DefaultPoseWithCovariance]
     ELSE LET new_pose == poseCompose(S.traj[latest_key].pose, odom_delta)
          IN [st |-> [S EXCEPT !.end = new_key,
                               !.traj = Put(S.traj, new_key,
                                            [pose |-> new_pose, id |-> new_key])],
              ok |-> TRUE,
              new_pose |-> new_pose]

\* trajectory_poses[key]: inserts a value-initialized entry for an absent key
Touch(traj, k) == IF k \in DOMAIN traj THEN traj ELSE Put(traj, k, DefaultTrajectoryPose)

\* lines 155-159: the threshold test on the consistency error (a placeholder)
WithinThreshold(result) == TRUE

\* isOdomConsistent: [st, consistent]
isOdomConsistent(S, lc_factor) ==
  LET key_i == front(lc_factor)
      key_j == back(lc_factor)
      traj2 == Touch(Touch(S.traj, key_i), key_j)
      pij_odom == poseBetween(traj2[key_i].pose, traj2[key_j].pose)
      pij_lc == [pose |-> lc_factor.pose, cov |-> inverse(lc_factor.R)]
      result == poseBetween(pij_odom, pij_lc)
  IN [st |-> [S EXCEPT !.traj = traj2], consistent |-> WithinThreshold(result)]

\* a selection that gives up when several closures are stored
findInliers_NoneWhenSeveral(S) == IF Len(S.lc) > 1 THEN <<>> ELSE S.lc

\* findInliers: inliers = nfg_lc_
findInliers(S) == S.lc

-----------------------------------------------------------------------------
(* GenericSolver::update *)

\* lines 181-187: one factor, one value whose key is not a landmark's, and
\* the factor casts to BetweenFactor<Pose3>
IsOdometry(nfg, values) ==
  /\ Len(nfg) = 1 /\ size(values) = 1
  /\ chr(keys(values)[1]) # "l"
  /\ nfg[1].type = "Between"

\* the initializing branch without the trajectory_poses.size() == 0 test
IsInitialization_AnyTime(S, nfg, values) ==
  /\ Len(nfg) = 1 /\ size(values) = 1
  /\ chr(keys(values)[1]) # "l"
  /\ nfg[1].type # "Between"

\* line 188: the branch that initializes, taken on an empty trajectory
IsInitialization(S, nfg, values) ==
  /\ Len(nfg) = 1 /\ size(values) = 1
  /\ chr(keys(values)[1]) # "l"
  /\ nfg[1].type # "Between"
  /\ Cardinality(DOMAIN S.traj) = 0

\* line 196
IsLoopClosure(nfg, values) ==
  /\ ~(Len(nfg) = 1 /\ size(values) = 1)
  /\ Len(nfg) = 1 /\ size(values) = 0

\* dereferencing a null shared_ptr (a failed dynamic_pointer_cast): the
\* BOOST_ASSERT of operator* aborts, or without it the copy through the null
\* reference faults
NullDeref == {"assert", "segv"}

\* lines 200-217 followed by the configured optimizer instead of line 217's return
OdometryBranch_Optimizes(S, nfg, values) ==
  UNION {LET u == updateOdom(S, nfg[1], latest_key)
             S1 == [u.st EXCEPT !.odom = @ \o nfg]
             k == keys(values)[1]
         IN IF ~u.ok THEN {Thrown(S, <<>>)}
            ELSE IF k \in DOMAIN S1.values THEN {Thrown(S1, <<>>)}
            ELSE RunConfiguredSolver([S1 EXCEPT !.values = Put(@, k, u.new_pose.pose)])
         : latest_key \in ReadKey(S.end)}

\* lines 200-217 storing the value the update carries instead of new_pose
OdometryBranch_StoresSupplied(S, nfg, values) ==
  {LET u == updateOdom(S, nfg[1], latest_key)
       S1 == [u.st EXCEPT !.odom = @ \o nfg]
       k == keys(values)[1]
   IN IF ~u.ok THEN Thrown(S, <<>>)
      ELSE IF k \in DOMAIN S1.values THEN Thrown(S1, <<>>)
      ELSE Returned([S1 EXCEPT !.values = Put(@, k, values[k])], <<>>)
   : latest_key \in ReadKey(S.end)}

\* lines 200-217, for every key end_id may read as
OdometryBranch(S, nfg, values) ==
  {LET u == updateOdom(S, nfg[1], latest_key)
       S1 == [u.st EXCEPT !.odom = @ \o nfg]
       k == keys(values)[1]
   IN IF ~u.ok THEN Thrown(S, <<>>)
      ELSE IF k \in DOMAIN S1.values THEN Thrown(S1, <<>>)
      ELSE Returned([S1 EXCEPT !.values = Put(@, k, u.new_pose.pose)], <<>>)
   : latest_key \in ReadKey(S.end)}

\* lines 219-245 without line 237: the combined graph is rebuilt from the
\* inlier loop closures alone
LoopClosureBranch_NoOdometry(S, nfg) ==
  IF nfg[1].type # "Between" THEN {Died(S, how) : how \in NullDeref}
  ELSE LET c == isOdomConsistent(S, nfg[1])
           S1 == [c.st EXCEPT !.lc = @ \o nfg]
           S2 == [S1 EXCEPT !.nfg = findInliers(S1)]
       IN IF ~c.consistent THEN {Returned(c.st, <<>>)}
          ELSE {IF o.ok THEN Returned([S2 EXCEPT !.values = o.result], <<o>>)
                ELSE Thrown(S2, <<o>>)
                : o \in Optimize("LM", S2.nfg, S2.values)}

\* lines 219-245
LoopClosureBranch(S, nfg) ==
  IF nfg[1].type # "Between" THEN {Died(S, how) : how \in NullDeref}
  ELSE LET c == isOdomConsistent(S, nfg[1])
           S1 == [c.st EXCEPT !.lc = @ \o nfg]
           S2 == [S1 EXCEPT !.nfg = S1.odom \o findInliers(S1)]
       IN IF ~c.consistent THEN {Returned(c.st, <<>>)}
          ELSE {IF o.ok THEN Returned([S2 EXCEPT !.values = o.result], <<o>>)
                ELSE Thrown(S2, <<o>>)
                : o \in Optimize("LM", S2.nfg, S2.values)}

\* the ways update(nfg, values, factorsToRemove) on solver S can end, each
\* [st, outcome, opt]
update(S, nfg, values, rm) ==
  IF IsInitialization(S, nfg, values) /\ nfg[1].type # "Prior"
  THEN {Died(S, how) : how \in NullDeref}
  ELSE LET S0 == IF IsInitialization(S, nfg, values)
                 THEN initializePrior(S, nfg[1]) ELSE S
       IN IF IsOdometry(nfg, values) THEN OdometryBranch(S0, nfg, values)
          ELSE IF IsLoopClosure(nfg, values) THEN LoopClosureBranch(S0, nfg)
          ELSE regularUpdate(S0, nfg, values, rm)

-----------------------------------------------------------------------------
(* The callers of update and what they submit *)

SolverTypes == {1, 2, 3}

\* relative-pose measurements
Deltas == {1, 2}
\* the node pairs loop-closure producers link
\* what odometry producers send: the factor's two keys and the value's key
OdometryInputs == {<<"x0", "x1", "x1">>, <<"x0", "x1", "x2">>, <<"x1", "x2", "x2">>,
                   <<"x1", "l0", "l0">>}
LoopPairs == {<<"x0", "x1">>, <<"x0", "x2">>}

PriorPoses == {0, 1}

\* the externally estimated pose a producer sends along with a new key
SuppliedPose == 5

\* removed-slot lists a producer may send: none, or the first slot
ProducerRemovedLists == {<<>>, <<0>>}
NoCall == [values |-> EmptyMap, nfg |-> <<>>, opt |-> <<>>, outcome |-> "none", rm |-> <<>>]

\* the factors a call reset: live in slot k of graph g, inert in slot k of h
ResetFactors(g, h) ==
  {g[k] : k \in {n \in 1..Len(g) : /\ n <= Len(h) /\ g[n] # NullFactor
                                   /\ h[n] = NullFactor}}

\* the threads that may call update
Threads == {1, 2}
\* a thread that has no call to make
NoJob == [values |-> EmptyMap, nfg |-> <<>>, rm |-> <<>>]
\* the locals of update before any is assigned
NoLocals == [latest_key |-> NoKey, new_pose |-> DefaultPoseWithCovariance,
             nfg_good_lc |-> <<>>, optimizer |-> <<>>, threw |-> FALSE]

\* no KeyedScan message received yet
NoScanMsg == [key |-> NoKey, scan |-> "none"]
\* no handler of IcpLoopComputation has run yet
NoHandler == [op |-> "none", input |-> <<>>, output |-> <<>>]

\* Initialize not called yet: not invoked, no step run, no step result,
\* nothing given back
NotInitialized == [invoked |-> FALSE, ran |-> <<>>, oks |-> <<>>, gave |-> "nothing"]

\* ImuHandler::ImuHandler: buffer_size_limit_(1000)
DefaultBufferSizeLimit == 1000
\* ImuHandler::ImuHandler: ts_threshold_(0.1), times counted in tenths of a second
DefaultTsThreshold == 1
\* a quaternion no message carried
NoQuaternion == "unset"
\* no ImuHandler call made yet
NoImuCall == [call |-> "none", stamp |-> 0, quaternion |-> NoQuaternion, found |-> FALSE,
              ended |-> "none", before |-> EmptyMap]

\* no ProcessTimerCallback has run yet
NoTimerCall == [ticks |-> 0, new_factor |-> FALSE, optimization |-> FALSE,
                sent_graph |-> FALSE, sent_map |-> FALSE, sent_optimizer |-> FALSE]
\* publications counted per publisher
NothingPublished == [graph_pubs |-> 0, map_pubs |-> 0, optimizer_pubs |-> 0]
\* flag raisings counted per flag
NothingRaised == [new_factor |-> 0, optimization |-> 0]

Alive == last.outcome \notin NullDeref

\* no update call is in progress in any thread
ThreadsIdle ==
  /\ pc = [t \in Threads |-> "idle"]
  /\ job = [t \in Threads |-> NoJob]
  /\ loc = [t \in Threads |-> NoLocals]
  /\ serialized = TRUE
  /\ origin = State

\* IcpLoopComputation::IcpLoopComputation
IcpConstructed ==
  /\ input_queue_ = <<>>
  /\ output_queue_ = <<>>
  /\ keyed_scans_ = EmptyMap
  /\ scan_msg = NoScanMsg
  /\ icp_entry = NoHandler
  /\ icp_init = NotInitialized

\* ImuHandler::ImuHandler
ImuConstructed ==
  /\ imu_buffer_ = EmptyMap
  /\ buffer_size_limit_ = DefaultBufferSizeLimit
  /\ ts_threshold_ = DefaultTsThreshold
  /\ imu_call = NoImuCall

\* LampBaseStation::LampBaseStation, no flag raised
StationConstructed ==
  /\ b_has_new_factor_ = FALSE
  /\ b_run_optimization_ = FALSE
  /\ station_init = NotInitialized
  /\ timer_call = NoTimerCall
  /\ published = NothingPublished
  /\ raised = NothingRaised

Init ==
  /\ nfg_ = <<>>
  /\ values_ = EmptyMap
  /\ nfg_odom_ = <<>>
  /\ nfg_lc_ = <<>>
  /\ trajectory_poses = EmptyMap
  /\ start_id = Indeterminate
  /\ end_id = Indeterminate
  /\ solver_type_ \in SolverTypes
  /\ last = NoCall
  /\ calls = 0
  /\ removed_ = {}
  /\ ThreadsIdle
  /\ IcpConstructed
  /\ ImuConstructed
  /\ StationConstructed

\* one call of update, whoever makes it
Update(nfg, values, rm) ==
  /\ \E r \in update(State, nfg, values, rm) :
          /\ nfg_' = r.st.nfg
          /\ values_' = r.st.values
          /\ nfg_odom_' = r.st.odom
          /\ nfg_lc_' = r.st.lc
          /\ trajectory_poses' = r.st.traj
          /\ start_id' = r.st.start
          /\ end_id' = r.st.end
          /\ last' = [values |-> values, nfg |-> nfg, opt |-> r.opt,
                      outcome |-> r.outcome, rm |-> rm]
          /\ removed_' = removed_ \cup ResetFactors(nfg_, r.st.nfg)
  /\ calls' = calls + 1
  /\ UNCHANGED solver_type_
  /\ UNCHANGED threadVars
  /\ UNCHANGED icpVars
  /\ UNCHANGED imuVars
  /\ UNCHANGED stationVars

\* the process is running and the run has calls left
CanCall == Alive /\ calls < MaxCalls

\* a prior producer: one Prior factor and one value
PriorUpdate ==
  \E p \in PriorPoses, k \in {"x0", "l0"}, rm \in ProducerRemovedLists :
    /\ CanCall
    /\ Update(<<PriorFactor("x0", p, 2)>>, Put(EmptyMap, k, p), rm)

\* an odometry producer: one Between factor and one value
OdometryUpdate ==
  \E in \in OdometryInputs, d \in Deltas, rm \in ProducerRemovedLists :
    /\ CanCall
    /\ Update(<<BetweenFactor(in[1], in[2], d, 1)>>, Put(EmptyMap, in[3], SuppliedPose), rm)

\* a loop-closure producer: one Between factor, no value
LoopClosureUpdate ==
  \E p \in LoopPairs, d \in Deltas, rm \in ProducerRemovedLists :
    /\ CanCall
    /\ Update(<<BetweenFactor(p[1], p[2], d, 1)>>, EmptyMap, rm)

\* an auxiliary producer: one Unary or Prior factor, with one value or none
AuxiliaryUpdate ==
  \E type \in {"Unary", "Prior"}, n \in {0, 1} :
    /\ CanCall
    /\ type = "Prior" => n = 0
    /\ Update(<<IF type = "Prior" THEN PriorFactor("x0", 0, 2) ELSE UnaryFactor("x0")>>,
              IF n = 1 THEN Put(EmptyMap, "x0", SuppliedPose) ELSE EmptyMap,
              <<>>)

\* what any other caller sends against a combined graph g: no factor or
\* two, up to two values, a removed slot or none or one past the end
BatchInputs(g) ==
  LET two == <<UnaryFactor("x0"), BetweenFactor("x0", "x1", 1, 1)>>
      v1 == Put(EmptyMap, "x1", SuppliedPose)
      v2 == Put(v1, "x0", SuppliedPose)
  IN <<<<<<>>, EmptyMap, <<>>>>, <<<<>>, EmptyMap, <<0>>>>, <<<<>>, EmptyMap, <<Len(g)>>>>,
       <<<<>>, v1, <<>>>>, <<two, v2, <<>>>>, <<two, EmptyMap, <<0>>>>>>

BatchUpdate ==
  \E n \in 1..6 :
    /\ CanCall
    /\ LET in == BatchInputs(nfg_)[n] IN Update(in[1], in[2], in[3])

Next == PriorUpdate \/ OdometryUpdate \/ LoopClosureUpdate \/ AuxiliaryUpdate \/ BatchUpdate

Spec == Init /\ [][Next]_vars

-----------------------------------------------------------------------------
(* What the properties below say about a call record c (last, or last') *)

OneFactor(c, type) == Len(c.nfg) = 1 /\ c.nfg[1].type = type
OneValue(c) == size(c.values) = 1
NoValue(c) == size(c.values) = 0
ValueKey(c) == keys(c.values)[1]

\* an odometry step: one Between factor, one value, a non-landmark key
OdometryStepCall(c) ==
  OneFactor(c, "Between") /\ OneValue(c) /\ chr(ValueKey(c)) # "l"
\* a loop-closure candidate: one Between factor and no value
LoopClosureCall(c) == OneFactor(c, "Between") /\ NoValue(c)
\* a prior: one Prior factor and one value
PriorCall(c) == OneFactor(c, "Prior") /\ OneValue(c)

\* the trajectory holds exactly the prior f: its key, pose and covariance
InitializedBy(traj, s, e, f) ==
  /\ DOMAIN traj = {front(f)}
  /\ traj[front(f)].pose = [pose |-> f.pose, cov |-> inverse(f.R)]
  /\ s = front(f)
  /\ e = front(f)

-----------------------------------------------------------------------------
(* C1 *)

\* C1: whatever the input and the solver state, update returns normally:
\* no exception leaves it and no failed cast is dereferenced (stated for the
\* calls in which the external solver, if invoked, did not fail).
C1_ReturnsNormally ==
  (\A n \in 1..Len(last.opt) : last.opt[n].ok) => last.outcome \in {"none", "returned"}

-----------------------------------------------------------------------------
(* C2 *)

\* an entry written by initializePrior or updateOdom (not one that
\* isOdomConsistent's lookup inserted)
Tracked(traj, k) == k \in DOMAIN traj /\ traj[k] # DefaultTrajectoryPose

\* the odometry-consistency test of the design (section 4.3): the measured
\* relative pose against the one the odometry trajectory implies.  One unit of
\* pose is many standard deviations, so any difference fails the test.
FailsOdometryTest(traj, f) ==
  /\ Tracked(traj, front(f)) /\ Tracked(traj, back(f))
  /\ f.pose # poseBetween(traj[front(f)].pose, traj[back(f)].pose).pose

\* C2: a loop closure that fails the odometry-consistency test is never
\* accepted: submitting it adds nothing to the accepted loop-closure graph
\* or to the combined graph.
C2_RejectionSafety ==
  [][(LoopClosureCall(last') /\ FailsOdometryTest(trajectory_poses, last'.nfg[1]))
       => (nfg_lc_' = nfg_lc_ /\ nfg_' = nfg_)]_vars

-----------------------------------------------------------------------------
(* C3 *)

\* C3: a loop-closure candidate with an endpoint that has no entry in the
\* odometry trajectory is rejected: it reaches neither graph and no
\* optimization is run.
C3_UnknownNodeRejected ==
  [][(LoopClosureCall(last')
        /\ ~({front(last'.nfg[1]), back(last'.nfg[1])} \subseteq DOMAIN trajectory_poses))
       => (nfg_lc_' = nfg_lc_ /\ nfg_' = nfg_ /\ last'.opt = <<>>)]_vars

-----------------------------------------------------------------------------
(* C4 *)

\* C4: an odometry step submitted while the odometry trajectory is empty is
\* dropped: trajectory, odometry graph, combined graph and Values are
\* unchanged and the trajectory is still empty; a prior with a non-landmark
\* value that follows it initializes the trajectory.
C4_BrokenTrajectoryDropped ==
  [][/\ (OdometryStepCall(last') /\ trajectory_poses = EmptyMap)
          => UNCHANGED <<trajectory_poses, start_id, end_id, nfg_odom_, nfg_, values_>>
     /\ (/\ OdometryStepCall(last) /\ trajectory_poses = EmptyMap
         /\ PriorCall(last') /\ chr(ValueKey(last')) # "l")
          => InitializedBy(trajectory_poses', start_id', end_id', last'.nfg[1])]_vars

\* an odometry step was just dropped on an empty trajectory
C4_Witness ==
  /\ OdometryStepCall(last) /\ last.outcome = "threw"
  /\ trajectory_poses = EmptyMap /\ nfg_odom_ = <<>> /\ values_ = EmptyMap

-----------------------------------------------------------------------------
(* C5 *)

\* C5 as claimed: on an empty trajectory, any update with exactly one Prior
\* factor and exactly one value initializes the trajectory with the prior's
\* key, pose and covariance, start = end = that key.
C5_PriorInitializes ==
  [][(PriorCall(last') /\ trajectory_poses = EmptyMap)
       => InitializedBy(trajectory_poses', start_id', end_id', last'.nfg[1])]_vars

\* C5 amended: the same, when the value's key is not of the landmark category.
C5_PriorInitializesNonLandmark ==
  [][(PriorCall(last') /\ chr(ValueKey(last')) # "l" /\ trajectory_poses = EmptyMap)
       => InitializedBy(trajectory_poses', start_id', end_id', last'.nfg[1])]_vars

\* a prior with pose 1 has just initialized a fresh solver
C5_Witness ==
  /\ calls = 1 /\ PriorCall(last) /\ chr(ValueKey(last)) # "l"
  /\ last.nfg[1].pose = 1
  /\ InitializedBy(trajectory_poses, start_id, end_id, last.nfg[1])

-----------------------------------------------------------------------------
(* C6 *)

\* C6: once the trajectory has entries, an update with a single Prior factor
\* and one value leaves its entries, start key and end key unchanged.
C6_ReinitializationNoOp ==
  [][(PriorCall(last') /\ trajectory_poses # EmptyMap)
       => UNCHANGED <<trajectory_poses, start_id, end_id>>]_vars

\* a second prior, with another pose than the one the trajectory started
\* from, came after an odometry step and returned
C6_Witness ==
  /\ PriorCall(last) /\ chr(ValueKey(last)) # "l" /\ last.outcome = "returned"
  /\ calls = 3 /\ Len(nfg_odom_) = 1
  /\ start_id = front(last.nfg[1])
  /\ trajectory_poses[start_id].pose.pose # last.nfg[1].pose

-----------------------------------------------------------------------------
(* C7 *)

\* C7: before the first valid prior, every update that is not a valid prior
\* initialization leaves the odometry trajectory empty.
C7_StaysUninitialized ==
  [][(trajectory_poses = EmptyMap /\ ~PriorCall(last'))
       => trajectory_poses' = EmptyMap]_vars

-----------------------------------------------------------------------------
(* C8 *)

\* C8: when an update with a non-empty removed-slot list returns, every
\* listed slot of the combined graph is inert and the new factors have been
\* appended to the combined graph.
C8_RemovalIsGeneric ==
  [][(last'.rm # <<>> /\ last'.outcome = "returned")
       => /\ \A n \in 1..Len(last'.rm) :
               /\ last'.rm[n] < Len(nfg_')
               /\ nfg_'[last'.rm[n] + 1] = NullFactor
          /\ Len(nfg_') = Len(nfg_) + Len(last'.nfg)]_vars

-----------------------------------------------------------------------------
(* C9 *)

\* C9: every update that removes a factor runs the optimizer before it
\* returns (stated for the solver types that have an optimizer).
C9_RemovalOptimizes ==
  (solver_type_ \in {1, 2} /\ last.rm # <<>> /\ last.outcome = "returned")
    => Len(last.opt) >= 1

-----------------------------------------------------------------------------
(* C10 *)

\* C10: when a loop-closure candidate is accepted, update invokes the
\* external solver exactly once, on the odometry factors followed by the
\* inlier loop closures, with the Values of before the call as initial guess;
\* when update returns, Values is the solver's result.
C10_AcceptedClosureOptimizes ==
  [][(LoopClosureCall(last') /\ nfg_lc_' # nfg_lc_)
       => /\ Len(last'.opt) = 1
          /\ last'.opt[1].graph = nfg_odom_' \o nfg_lc_'
          /\ last'.opt[1].init = values_
          /\ nfg_odom_' = nfg_odom_
          /\ last'.outcome = "returned" => values_' = last'.opt[1].result]_vars

\* a closure x0 -> x1 was accepted after a prior and an odometry step, and
\* Values now holds the solver's result, which differs from the initial guess
C10_Witness ==
  /\ LoopClosureCall(last) /\ last.outcome = "returned"
  /\ Len(nfg_lc_) = 1 /\ Len(nfg_odom_) = 1 /\ Len(last.opt) = 1
  /\ values_ = last.opt[1].result
  /\ values_ # last.opt[1].init

-----------------------------------------------------------------------------
(* C11 *)

\* the Prior and Unary factors in live slots of a graph
AuxiliaryFactors(g) == {g[i] : i \in {n \in Live(g) : g[n].type \in {"Prior", "Unary"}}}
\* the factors of a graph handed to the solver
FactorsOf(g) == {g[i] : i \in Live(g)}

\* C11: the graph optimized on an accepted loop closure contains every Prior
\* and Unary factor that was in the combined graph and not removed.
C11_PriorsKeptInCombinedGraph ==
  [][(LoopClosureCall(last') /\ nfg_lc_' # nfg_lc_)
       => /\ Len(last'.opt) = 1
          /\ AuxiliaryFactors(nfg_) \subseteq FactorsOf(last'.opt[1].graph)]_vars

-----------------------------------------------------------------------------
(* C12 *)

\* C12: an odometry step without removed slots never invokes the solver;
\* when it returns, Values has exactly one more key, the new value's, and
\* every entry it had is unchanged.
C12_OdometryStepSkipsSolver ==
  [][(OdometryStepCall(last') /\ last'.rm = <<>>)
       => /\ last'.opt = <<>>
          /\ last'.outcome = "returned"
               => /\ ValueKey(last') \notin DOMAIN values_
                  /\ DOMAIN values_' = DOMAIN values_ \cup {ValueKey(last')}
                  /\ \A k \in DOMAIN values_ : values_'[k] = values_[k]]_vars

\* a second odometry step returned on a solver that has an optimizer: Values
\* holds the prior's node and both new nodes
C12_Witness ==
  /\ OdometryStepCall(last) /\ last.rm = <<>> /\ last.outcome = "returned"
  /\ solver_type_ = 1 /\ last.opt = <<>>
  /\ DOMAIN values_ = {"x0", "x1", "x2"} /\ Len(nfg_odom_) = 2

-----------------------------------------------------------------------------
(* C13 *)

\* an update with no factor, no value and no removed slot
EmptyCall(c) == c.nfg = <<>> /\ c.values = EmptyMap /\ c.rm = <<>>

\* C13: an update that adds nothing returns without invoking the solver and
\* leaves combined graph, odometry graph, accepted loop closures, odometry
\* trajectory and Values unchanged.
C13_EmptyUpdateNoOp ==
  [][EmptyCall(last')
       => /\ last'.opt = <<>> /\ last'.outcome = "returned"
          /\ UNCHANGED <<nfg_, nfg_odom_, nfg_lc_, trajectory_poses, start_id, end_id,
                         values_>>]_vars

\* an empty update was made on a solver that has an optimizer and holds a
\* prior and an odometry step
C13_Witness ==
  /\ EmptyCall(last) /\ last.outcome = "returned" /\ calls = 3
  /\ solver_type_ \in {1, 2}
  /\ Len(nfg_) = 1 /\ Len(nfg_odom_) = 1 /\ DOMAIN values_ = {"x0", "x1"}

-----------------------------------------------------------------------------
(* C14 *)

\* one factor that is not a Between factor, and no value
AuxiliaryNoValueCall(c) == Len(c.nfg) = 1 /\ c.nfg[1].type # "Between" /\ NoValue(c)

\* C14: an update with one non-Between factor and no value is a generic
\* update: the call completes, the factor is appended to the combined graph
\* and the accepted loop-closure graph is unchanged.
C14_NonBetweenIsGeneric ==
  [][AuxiliaryNoValueCall(last')
       => /\ last'.outcome \notin NullDeref
          /\ Len(nfg_') = Len(nfg_) + 1
          /\ nfg_'[Len(nfg_')] = last'.nfg[1]
          /\ nfg_lc_' = nfg_lc_]_vars

-----------------------------------------------------------------------------
(* C15 *)

\* one Between factor and one value whose key is a landmark's
LandmarkStepCall(c) ==
  OneFactor(c, "Between") /\ OneValue(c) /\ chr(ValueKey(c)) = "l"

\* C15: with one Between factor and one value, a non-landmark key makes an
\* odometry step (the factor goes to the odometry graph); a landmark key
\* makes a generic update: odometry trajectory and odometry graph unchanged,
\* and when the call returns the factor is in the combined graph, the value
\* in Values, and the optimizer was run.
C15_LandmarkKeyIsGeneric ==
  [][/\ (OdometryStepCall(last') /\ last'.outcome = "returned")
          => nfg_odom_' = nfg_odom_ \o last'.nfg
     /\ LandmarkStepCall(last')
          => /\ UNCHANGED <<trajectory_poses, start_id, end_id, nfg_odom_>>
             /\ last'.outcome = "returned"
                  => /\ Len(nfg_') = Len(nfg_) + 1
                     /\ nfg_'[Len(nfg_')] = last'.nfg[1]
                     /\ ValueKey(last') \in DOMAIN values_'
                     /\ Len(last'.opt) = 1]_vars

-----------------------------------------------------------------------------
(* C16 *)

\* two closures that measure the relative pose of the same two nodes and
\* differ by a unit or more (many standard deviations): no pairwise test
\* can pass them
GrosslyInconsistent(a, b) == a.keys = b.keys /\ a.pose # b.pose

\* the loop closures in the graph of call c's solver invocation, which holds
\* the odometry factors odom first
HandedClosures(c, odom) ==
  {c.opt[1].graph[n] : n \in (Len(odom) + 1)..Len(c.opt[1].graph)}

\* C16: the loop closures handed to the optimizer are pairwise consistent.
C16_InliersFormClique ==
  [][(LoopClosureCall(last') /\ Len(last'.opt) = 1)
       => \A a, b \in HandedClosures(last', nfg_odom_') : ~GrosslyInconsistent(a, b)]_vars

-----------------------------------------------------------------------------
(* C17 *)

\* a generic/batch update as the design classifies it: removed slots
\* present, or none of odometry step, loop-closure candidate, prior
GenericBatchCall(c) ==
  \/ c.rm # <<>>
  \/ ~OdometryStepCall(c) /\ ~LoopClosureCall(c) /\ ~PriorCall(c)

\* the same update as the one before
SameInput(c, d) == c.nfg = d.nfg /\ c.values = d.values /\ c.rm = d.rm

\* C17: issuing a generic/batch update a second time, with the same factors,
\* values and removed slots, leaves the size of the accepted loop-closure
\* graph as it was after the first call.
C17_BatchIdempotence ==
  [][(GenericBatchCall(last') /\ SameInput(last', last))
       => Len(nfg_lc_') = Len(nfg_lc_)]_vars

-----------------------------------------------------------------------------
(* C18 *)

\* C18: the inlier set used for optimization never gets smaller from one
\* update to the next.
C18_InlierSetGrows ==
  [][Len(findInliers(State)') >= Len(findInliers(State))]_vars

\* a second closure, not in conflict with the first, was accepted and both
\* were handed to the solver
C18_Witness ==
  /\ LoopClosureCall(last) /\ Len(last.opt) = 1
  /\ Len(nfg_lc_) = 2 /\ findInliers(State) = nfg_lc_
  /\ ~GrosslyInconsistent(nfg_lc_[1], nfg_lc_[2])
  /\ {nfg_lc_[1], nfg_lc_[2]} \subseteq FactorsOf(last.opt[1].graph)

-----------------------------------------------------------------------------
(* C19 *)

\* the composition of the first n measurements of the odometry factors
RECURSIVE ChainSum(_, _)
ChainSum(odom, n) == IF n = 0 THEN 0 ELSE ChainSum(odom, n - 1) + odom[n].pose

\* the node reached after n odometry factors, from start key s
ChainKey(odom, s, n) == IF n = 0 THEN s ELSE back(odom[n])

\* the odometry factors are sequential steps from s: each starts where the
\* one before ended, and every step reaches a new node
IsChain(odom, s) ==
  /\ Len(odom) >= 1
  /\ \A n \in 1..Len(odom) : front(odom[n]) = ChainKey(odom, s, n - 1)
  /\ \A m, n \in 0..Len(odom) : m # n => ChainKey(odom, s, m) # ChainKey(odom, s, n)

\* C19: after a prior and n sequential odometry steps, the trajectory's end
\* entry is the last step's node, every entry along the chain holds the
\* prior's pose composed with the measurements up to it, and the relative
\* pose between two entries is the composition of the steps between them.
C19_OdometryComposition ==
  (start_id \in Keys /\ IsChain(nfg_odom_, start_id))
    => /\ end_id = ChainKey(nfg_odom_, start_id, Len(nfg_odom_))
       /\ \A n \in 0..Len(nfg_odom_) :
            /\ ChainKey(nfg_odom_, start_id, n) \in DOMAIN trajectory_poses
            /\ trajectory_poses[ChainKey(nfg_odom_, start_id, n)].pose.pose
                 = trajectory_poses[start_id].pose.pose + ChainSum(nfg_odom_, n)
       /\ \A m, n \in 0..Len(nfg_odom_) :
            m < n => poseBetween(trajectory_poses[ChainKey(nfg_odom_, start_id, m)].pose,
                                 trajectory_poses[ChainKey(nfg_odom_, start_id, n)].pose).pose
                       = ChainSum(nfg_odom_, n) - ChainSum(nfg_odom_, m)

\* a prior with pose 1, then steps x0 -> x1 of 2 and x1 -> x2 of 1: the
\* trajectory holds 1, 3, 4
C19_Witness ==
  /\ start_id = "x0" /\ end_id = "x2"
  /\ nfg_odom_ = <<BetweenFactor("x0", "x1", 2, 1), BetweenFactor("x1", "x2", 1, 1)>>
  /\ DOMAIN trajectory_poses = {"x0", "x1", "x2"}
  /\ trajectory_poses["x0"].pose.pose = 1
  /\ trajectory_poses["x1"].pose.pose = 3
  /\ trajectory_poses["x2"].pose.pose = 4

-----------------------------------------------------------------------------
(* C20 *)

\* the external solver failed in call c
SolverFailed(c) == \E n \in 1..Len(c.opt) : ~c.opt[n].ok

\* C20: when the external solver fails during an update, the update returns
\* (the failure is a status, not an exception) and Values is what it was
\* when the solver was invoked.
C20_FailureIsStatus ==
  SolverFailed(last) => /\ last.outcome = "returned"
                        /\ values_ = last.opt[Len(last.opt)].init

-----------------------------------------------------------------------------
(* C21 *)

\* C21: every solver invocation uses the configured algorithm: a solver
\* configured for Gauss-Newton never runs Levenberg-Marquardt.
C21_ConfiguredAlgorithm ==
  solver_type_ = 2 => \A n \in 1..Len(last.opt) : last.opt[n].algo = "GN"

-----------------------------------------------------------------------------
(* C22 *)

\* C22: a slot of the combined graph keeps its factor or becomes inert; the
\* graph never gets shorter.
C22_SlotsStable ==
  [][/\ Len(nfg_') >= Len(nfg_)
     /\ \A k \in 1..Len(nfg_) :
          k <= Len(nfg_') => nfg_'[k] \in {nfg_[k], NullFactor}]_vars

-----------------------------------------------------------------------------
(* C23 *)

\* C23: processing a loop-closure candidate leaves the odometry trajectory,
\* its start key and its end key unchanged.
C23_ClosureLeavesTrajectory ==
  [][LoopClosureCall(last') => UNCHANGED <<trajectory_poses, start_id, end_id>>]_vars

-----------------------------------------------------------------------------
(* C24 *)

\* C24: once a prior has initialized the trajectory, start and end key have
\* entries, and a successful odometry step adds exactly one new entry, which
\* the end key then names, and changes no existing entry.
C24_TrajectoryGrowsByOne ==
  [][(start_id \in Keys)
       => /\ {start_id, end_id} \subseteq DOMAIN trajectory_poses
          /\ (OdometryStepCall(last') /\ last'.outcome = "returned")
               => /\ end_id' \notin DOMAIN trajectory_poses
                  /\ DOMAIN trajectory_poses' = DOMAIN trajectory_poses \cup {end_id'}
                  /\ \A k \in DOMAIN trajectory_poses :
                       trajectory_poses'[k] = trajectory_poses[k]]_vars

-----------------------------------------------------------------------------
(* C25 *)

\* C25: after an odometry step, the Values entry of the new value's key is
\* the pose composed by updateOdom, the pose of the trajectory's new end
\* entry.
C25_ValuesHoldComposedPose ==
  [][(OdometryStepCall(last') /\ last'.outcome = "returned")
       => /\ end_id' \in DOMAIN trajectory_poses'
          /\ values_'[ValueKey(last')] = trajectory_poses'[end_id'].pose.pose]_vars

\* an odometry step returned and Values holds a composed pose that is not
\* the pose the update carried
C25_Witness ==
  /\ OdometryStepCall(last) /\ last.outcome = "returned"
  /\ start_id = "x0" /\ end_id = "x1"
  /\ values_[ValueKey(last)] = trajectory_poses["x0"].pose.pose + last.nfg[1].pose
  /\ values_[ValueKey(last)] # last.values[ValueKey(last)]

-----------------------------------------------------------------------------
(* C28 *)

\* C28: after every update that returned, every key with an entry in the
\* odometry trajectory has an entry in Values.
C28_TrajectoryKeysInValues ==
  last.outcome \in {"none", "returned"} => DOMAIN trajectory_poses \subseteq DOMAIN values_

\* C27: a factor removed through the removal list of an update call, with no
\* live copy left in the combined graph and not added again by the call
\* being made, is in no graph that call hands to the solver.
C27_RemovedStaysRemoved ==
  [][\A f \in removed_ :
       (f \notin FactorsOf(nfg_) /\ f \notin FactorsOf(last'.nfg))
         => \A n \in 1..Len(last'.opt) : f \notin FactorsOf(last'.opt[n].graph)]_vars

\* ---------------------------------------------------------------------
\* Initialize of LampBaseStation and of IcpLoopComputation
\* ---------------------------------------------------------------------

\* the steps of a sequence that run when each is tried in turn and the
\* first failure stops the sequence; steps[i] = <<name, ok>>
RECURSIVE RunInOrder(_)
RunInOrder(steps) ==
  IF steps = <<>> THEN <<>>
  ELSE IF Head(steps)[2] THEN <<Head(steps)>> \o RunInOrder(Tail(steps))
  ELSE <<Head(steps)>>

\* what control reaching the closing brace of a function declared bool
\* gives the caller: undefined, so any bool, or the process dies
OffTheEnd == {"true", "false", "crash"}

\* the record of an Initialize call: the steps run, their results, the result
Initialized(done, gave) ==
  [invoked |-> TRUE, ran |-> [i \in 1..Len(done) |-> done[i][1]],
   oks |-> [i \in 1..Len(done) |-> done[i][2]], gave |-> gave]

\* a step of the sequence failed
Failed(done) == \E i \in 1..Len(done) : ~done[i][2]

\* ---------------------------------------------------------------------
\* IcpLoopComputation: keyed scans, candidate queue, edge queue
\* ---------------------------------------------------------------------

\* longest candidate queue ComputeTransforms is given
MaxQueue == 3

\* the keys scans and candidates carry
ScanKeys == {"x0", "x1", "x2"}
\* a point cloud: without points, or showing place a or place b
Scans == {"empty", "a", "b"}

\* a loop candidate (pose_from and pose_to only seed the initial guess)
Candidate(from, to) == [key_from |-> from, key_to |-> to]
\* x3 is a key no scan message carries
Candidates == {Candidate("x0", "x1"), Candidate("x1", "x2"), Candidate("x0", "x3")}

\* icp_.align, hasConverged and getFitnessScore <= max_tolerable_fitness_:
\* two clouds register when they show the same place
IcpConverges(scan1, scan2) == scan1 = scan2

\* the output pointers are addresses of the caller's locals and the stored
\* clouds come from new, so neither null test fires
PerformAlignment(scans, key1, key2) ==
  IF key1 \notin DOMAIN scans \/ key2 \notin DOMAIN scans THEN FALSE
  ELSE IF scans[key1] = "empty" \/ scans[key2] = "empty" THEN FALSE
  ELSE IcpConverges(scans[key1], scans[key2])

\* the PoseGraphEdge built for an aligned candidate
CreateLoopClosureEdge(key_from, key_to) == [key_from |-> key_from, key_to |-> key_to]

\* the loop of ComputeTransforms appending every candidate it pops
RECURSIVE ComputeLoop_PushesAll(_, _, _, _)
ComputeLoop_PushesAll(n, inq, outq, scans) ==
  IF n = 0 THEN [input |-> inq, output |-> outq]
  ELSE LET candidate == Head(inq)
       IN ComputeLoop_PushesAll(n - 1, Tail(inq),
            Append(outq, CreateLoopClosureEdge(candidate.key_from, candidate.key_to)), scans)

\* the loop of ComputeTransforms: n iterations left, on the two queues
RECURSIVE ComputeLoop(_, _, _, _)
ComputeLoop(n, inq, outq, scans) ==
  IF n = 0 THEN [input |-> inq, output |-> outq]
  ELSE LET candidate == Head(inq)
           rest == Tail(inq)
       IN IF \/ candidate.key_from \notin DOMAIN scans
             \/ candidate.key_to \notin DOMAIN scans
          THEN ComputeLoop(n - 1, rest, outq, scans)
          ELSE IF ~PerformAlignment(scans, candidate.key_from, candidate.key_to)
          THEN ComputeLoop(n - 1, rest, outq, scans)
          ELSE ComputeLoop(n - 1, rest,
                 Append(outq, CreateLoopClosureEdge(candidate.key_from, candidate.key_to)),
                 scans)

\* KeyedScanCallback storing the scan whether or not the key has one
StoreScan_Overwrites(scans, key, scan) == Put(scans, key, scan)

\* KeyedScanCallback: the keyed scans after a message (key, scan)
StoreScan(scans, key, scan) ==
  IF key \in DOMAIN scans THEN scans ELSE Put(scans, key, scan)

\* the candidate queues ComputeTransforms may find
RECURSIVE QueuesUpTo(_)
QueuesUpTo(n) ==
  IF n = 0 THEN {<<>>}
  ELSE LET shorter == QueuesUpTo(n - 1)
       IN shorter \cup {Append(q, c) : q \in {r \in shorter : Len(r) = n - 1}, c \in Candidates}

\* the solver as constructed, never called
SolverConstructed ==
  /\ nfg_ = <<>>
  /\ values_ = EmptyMap
  /\ nfg_odom_ = <<>>
  /\ nfg_lc_ = <<>>
  /\ trajectory_poses = EmptyMap
  /\ start_id = Indeterminate
  /\ end_id = Indeterminate
  /\ solver_type_ = 1
  /\ last = NoCall
  /\ calls = 0
  /\ removed_ = {}

\* RegisterCallbacks with a final return true
RegisterCallbacks_ReturnsTrue(base_ok) ==
  IF ~base_ok THEN {"false"} ELSE {"true"}

\* IcpLoopComputation::RegisterCallbacks: what it gives the caller.  After
\* the base class's registration succeeded, the subscription and the timer
\* are created and control reaches the closing brace without a return
RegisterCallbacks(base_ok) ==
  IF ~base_ok THEN {"false"} ELSE OffTheEnd

\* IcpLoopComputation::Initialize: the ways it can end.  The result recorded
\* for a step says whether what the step does succeeded; what
\* RegisterCallbacks reports decides whether Initialize goes on
IcpLoopComputationInitialize(params_ok, base_ok, publishers_ok) ==
  IF ~params_ok THEN {Initialized(<<<<"LoadParameters", FALSE>>>>, "false")}
  ELSE UNION {
         LET two == <<<<"LoadParameters", TRUE>>, <<"RegisterCallbacks", base_ok>>>>
         IN IF reported = "crash" THEN {Initialized(two, "crash")}
            ELSE IF reported = "false" THEN {Initialized(two, "false")}
            ELSE {Initialized(Append(two, <<"CreatePublishers", publishers_ok>>),
                              IF publishers_ok THEN "true" ELSE "false")}
         : reported \in RegisterCallbacks(base_ok)}

\* the record of an Initialize in which every step succeeded and that
\* returned true
InitializedFully ==
  Initialized(<<<<"LoadParameters", TRUE>>, <<"RegisterCallbacks", TRUE>>,
                <<"CreatePublishers", TRUE>>>>, "true")

\* the object as constructed, or the running node with the candidates and
\* the edges the base class's callbacks have queued
IcpInit ==
  /\ SolverConstructed
  /\ ThreadsIdle
  /\ \/ /\ icp_init = NotInitialized
        /\ input_queue_ = <<>>
        /\ output_queue_ = <<>>
     \/ /\ icp_init = InitializedFully
        /\ input_queue_ \in QueuesUpTo(MaxQueue)
        /\ output_queue_ \in {<<>>, <<CreateLoopClosureEdge("x0", "x1")>>}
  /\ keyed_scans_ = EmptyMap
  /\ scan_msg = NoScanMsg
  /\ icp_entry = NoHandler
  /\ ImuConstructed
  /\ StationConstructed

\* Initialize returned true: the node runs, its callbacks are called
IcpRunning == icp_init.gave = "true"

IcpInitialize ==
  \E params_ok \in BOOLEAN, base_ok \in BOOLEAN, publishers_ok \in BOOLEAN :
    /\ ~icp_init.invoked
    /\ icp_init' \in IcpLoopComputationInitialize(params_ok, base_ok, publishers_ok)
    /\ UNCHANGED <<input_queue_, output_queue_, keyed_scans_, scan_msg, icp_entry>>
    /\ UNCHANGED solverVars
    /\ UNCHANGED callVars
    /\ UNCHANGED threadVars
    /\ UNCHANGED imuVars
    /\ UNCHANGED stationVars

KeyedScanCallback ==
  \E key \in ScanKeys, scan \in Scans :
    /\ IcpRunning
    /\ keyed_scans_' = StoreScan(keyed_scans_, key, scan)
    /\ scan_msg' = [key |-> key, scan |-> scan]
    /\ icp_entry' = [op |-> "KeyedScanCallback", input |-> input_queue_,
                     output |-> output_queue_]
    /\ UNCHANGED <<input_queue_, output_queue_>>
    /\ UNCHANGED solverVars
    /\ UNCHANGED callVars
    /\ UNCHANGED threadVars
    /\ UNCHANGED imuVars
    /\ UNCHANGED stationVars
    /\ UNCHANGED icp_init

ComputeTransforms ==
  /\ IcpRunning
  /\ \E r \in {ComputeLoop(Len(input_queue_), input_queue_, output_queue_, keyed_scans_)} :
          /\ input_queue_' = r.input
          /\ output_queue_' = r.output
  /\ icp_entry' = [op |-> "ComputeTransforms", input |-> input_queue_,
                   output |-> output_queue_]
  /\ UNCHANGED <<keyed_scans_, scan_msg>>
  /\ UNCHANGED solverVars
  /\ UNCHANGED callVars
  /\ UNCHANGED threadVars
  /\ UNCHANGED imuVars
  /\ UNCHANGED stationVars
  /\ UNCHANGED icp_init

IcpNext == IcpInitialize \/ KeyedScanCallback \/ ComputeTransforms

SpecIcp == IcpInit /\ [][IcpNext]_vars

\* the candidate has both scans and its alignment succeeds
Aligns(c) ==
  /\ {c.key_from, c.key_to} \subseteq DOMAIN keyed_scans_
  /\ PerformAlignment(keyed_scans_, c.key_from, c.key_to)

\* the edges of the candidates of q
EdgesOf(q) == [i \in 1..Len(q) |-> CreateLoopClosureEdge(q[i].key_from, q[i].key_to)]

\* C29: when ComputeTransforms has returned, the input queue is empty and
\* the output queue is its previous contents followed, in input order, by one
\* edge for each candidate that had both keyed scans and aligned.
C29_ComputeTransformsDrains ==
  icp_entry.op = "ComputeTransforms"
    => /\ input_queue_ = <<>>
       /\ output_queue_ = icp_entry.output \o EdgesOf(SelectSeq(icp_entry.input, Aligns))

\* a run over three candidates and one earlier edge: one candidate lacks a
\* scan, one has both scans but does not align, one aligns
C29_Witness ==
  /\ icp_entry.op = "ComputeTransforms"
  /\ Len(icp_entry.output) = 1
  /\ Len(icp_entry.input) = 3
  /\ Len(output_queue_) = 2
  /\ \E i \in 1..3 : ~({icp_entry.input[i].key_from, icp_entry.input[i].key_to}
                         \subseteq DOMAIN keyed_scans_)
  /\ \E i \in 1..3 :
       /\ {icp_entry.input[i].key_from, icp_entry.input[i].key_to} \subseteq DOMAIN keyed_scans_
       /\ ~Aligns(icp_entry.input[i])

\* C30: no step removes a key from keyed_scans_ or changes the scan stored
\* for a key; a message whose key has no scan yet stores its scan.
C30_FirstScanWins ==
  [][/\ \A k \in DOMAIN keyed_scans_ :
          k \in DOMAIN keyed_scans_' /\ keyed_scans_'[k] = keyed_scans_[k]
     /\ (icp_entry'.op = "KeyedScanCallback" /\ scan_msg'.key \notin DOMAIN keyed_scans_)
          => /\ scan_msg'.key \in DOMAIN keyed_scans_'
             /\ keyed_scans_'[scan_msg'.key] = scan_msg'.scan]_vars

\* a later message for a key that has a scan brought another scan, and the
\* first one is still stored
C30_Witness ==
  /\ icp_entry.op = "KeyedScanCallback"
  /\ scan_msg.key \in DOMAIN keyed_scans_
  /\ keyed_scans_[scan_msg.key] # scan_msg.scan

\* ---------------------------------------------------------------------
\* GenericSolver::update called from two threads, statement by statement
\* ---------------------------------------------------------------------

\* a solver as constructed
ConstructedSolver ==
  [values |-> EmptyMap, nfg |-> <<>>, odom |-> <<>>, lc |-> <<>>, traj |-> EmptyMap,
   start |-> Indeterminate, end |-> Indeterminate, solver_type |-> 1]

\* the solver after a call of update that returns
AfterReturn(S, nfg, values, rm) ==
  (CHOOSE r \in update(S, nfg, values, rm) : r.outcome = "returned").st

\* the solver when the threads call: initialized at x0, one odometry step to x1
TrackingSolver ==
  AfterReturn(AfterReturn(ConstructedSolver, <<PriorFactor("x0", 0, 2)>>,
                          Put(EmptyMap, "x0", 0), <<>>),
              <<BetweenFactor("x0", "x1", 1, 1)>>, Put(EmptyMap, "x1", SuppliedPose), <<>>)

\* the calls the threads make: an odometry step x1 -> x2, or a loop-closure
\* candidate between x0 and x1 measuring d
OdometryJob == [values |-> Put(EmptyMap, "x2", SuppliedPose),
                nfg |-> <<BetweenFactor("x1", "x2", 1, 1)>>, rm |-> <<>>]
LoopClosureJob(d) == [values |-> EmptyMap, nfg |-> <<BetweenFactor("x0", "x1", d, 1)>>,
                      rm |-> <<>>]

ConcurrentInit ==
  /\ nfg_ = TrackingSolver.nfg
  /\ values_ = TrackingSolver.values
  /\ nfg_odom_ = TrackingSolver.odom
  /\ nfg_lc_ = TrackingSolver.lc
  /\ trajectory_poses = TrackingSolver.traj
  /\ start_id = TrackingSolver.start
  /\ end_id = TrackingSolver.end
  /\ solver_type_ = TrackingSolver.solver_type
  /\ last = NoCall
  /\ calls = 0
  /\ removed_ = {}
  /\ pc = [t \in Threads |-> "idle"]
  /\ \E first \in {LoopClosureJob(1), OdometryJob}, second \in {LoopClosureJob(2), OdometryJob} :
          job = [t \in Threads |-> IF t = 1 THEN first ELSE second]
  /\ loc = [t \in Threads |-> NoLocals]
  /\ serialized \in BOOLEAN
  /\ origin = State
  /\ IcpConstructed
  /\ ImuConstructed
  /\ StationConstructed

\* a thread is inside update
InCall(t) == pc[t] \notin {"idle", "done", "dead"}

\* a caller that is said to serialize enters whatever the other thread does
MayEnter_NoLock(t) == TRUE

\* the callers' lock: a serializing caller enters update only while no other
\* thread is inside it
MayEnter(t) == serialized => \A u \in Threads \ {t} : ~InCall(u)

\* what a statement of update leaves alone besides the solver and the locals
ThreadFrame ==
  /\ UNCHANGED <<job, serialized, origin>>
  /\ UNCHANGED callVars
  /\ UNCHANGED icpVars
  /\ UNCHANGED imuVars
  /\ UNCHANGED stationVars

Goto(t, label) == pc' = [pc EXCEPT ![t] = label]

\* an exception leaves update in thread t
Throw(t) ==
  /\ pc' = [pc EXCEPT ![t] = "done"]
  /\ loc' = [loc EXCEPT ![t].threw = TRUE]

\* lines 178-198: the classification, which reads only the arguments (the
\* trajectory is not empty, so the call does not initialize)
Enter ==
  \E t \in Threads :
    /\ pc[t] = "idle"
    /\ MayEnter(t)
    /\ Goto(t, IF IsOdometry(job[t].nfg, job[t].values) THEN "odom113" ELSE "lc225")
    /\ UNCHANGED solverVars
    /\ UNCHANGED loc
    /\ ThreadFrame

\* line 113: latest_key = end_id
Odom113 ==
  \E t \in Threads :
    /\ pc[t] = "odom113"
    /\ \E k \in ReadKey(end_id) : loc' = [loc EXCEPT ![t].latest_key = k]
    /\ Goto(t, "odom115")
    /\ UNCHANGED solverVars
    /\ ThreadFrame

\* lines 114-117: last_pose = trajectory_poses.at(latest_key).pose; poseCompose
Odom115 ==
  \E t \in Threads :
    /\ pc[t] = "odom115"
    /\ IF loc[t].latest_key \notin DOMAIN trajectory_poses
       THEN Throw(t)
       ELSE /\ loc' = [loc EXCEPT ![t].new_pose =
                         poseCompose(trajectory_poses[loc[t].latest_key].pose,
                                     [pose |-> job[t].nfg[1].pose,
                                      cov |-> inverse(job[t].nfg[1].R)])]
            /\ Goto(t, "odom120")
    /\ UNCHANGED solverVars
    /\ ThreadFrame

\* line 120: end_id = new_key
Odom120 ==
  \E t \in Threads :
    /\ pc[t] = "odom120"
    /\ end_id' = back(job[t].nfg[1])
    /\ Goto(t, "odom125")
    /\ UNCHANGED <<nfg_, values_, nfg_odom_, nfg_lc_, trajectory_poses, start_id, solver_type_>>
    /\ UNCHANGED loc
    /\ ThreadFrame

\* lines 122-125: trajectory_poses[new_key] = new_trajectorypose
Odom125 ==
  \E t \in Threads :
    /\ pc[t] = "odom125"
    /\ trajectory_poses' = Put(trajectory_poses, back(job[t].nfg[1]),
                               [pose |-> loc[t].new_pose, id |-> back(job[t].nfg[1])])
    /\ Goto(t, "odom212")
    /\ UNCHANGED <<nfg_, values_, nfg_odom_, nfg_lc_, start_id, end_id, solver_type_>>
    /\ UNCHANGED loc
    /\ ThreadFrame

\* line 212: nfg_odom_.add(nfg)
Odom212 ==
  \E t \in Threads :
    /\ pc[t] = "odom212"
    /\ nfg_odom_' = nfg_odom_ \o job[t].nfg
    /\ Goto(t, "odom215")
    /\ UNCHANGED <<nfg_, values_, nfg_lc_, trajectory_poses, start_id, end_id, solver_type_>>
    /\ UNCHANGED loc
    /\ ThreadFrame

\* line 215: values_.insert(values.keys()[0], new_pose.pose); return
Odom215 ==
  \E t \in Threads :
    /\ pc[t] = "odom215"
    /\ IF keys(job[t].values)[1] \in DOMAIN values_
       THEN /\ Throw(t)
            /\ UNCHANGED values_
       ELSE /\ values_' = Put(values_, keys(job[t].values)[1], loc[t].new_pose.pose)
            /\ Goto(t, "done")
            /\ UNCHANGED loc
    /\ UNCHANGED <<nfg_, nfg_odom_, nfg_lc_, trajectory_poses, start_id, end_id, solver_type_>>
    /\ ThreadFrame

\* line 225: isOdomConsistent(nfg_factor)
Lc225 ==
  \E t \in Threads :
    /\ pc[t] = "lc225"
    /\ \E c \in {isOdomConsistent(State, job[t].nfg[1])} :
          /\ trajectory_poses' = c.st.traj
          /\ Goto(t, IF c.consistent THEN "lc226" ELSE "done")
    /\ UNCHANGED <<nfg_, values_, nfg_odom_, nfg_lc_, start_id, end_id, solver_type_>>
    /\ UNCHANGED loc
    /\ ThreadFrame

\* line 226: nfg_lc_.add(nfg)
Lc226 ==
  \E t \in Threads :
    /\ pc[t] = "lc226"
    /\ nfg_lc_' = nfg_lc_ \o job[t].nfg
    /\ Goto(t, "lc233")
    /\ UNCHANGED <<nfg_, values_, nfg_odom_, trajectory_poses, start_id, end_id, solver_type_>>
    /\ UNCHANGED loc
    /\ ThreadFrame

\* lines 232-233: findInliers(nfg_good_lc)
Lc233 ==
  \E t \in Threads :
    /\ pc[t] = "lc233"
    /\ loc' = [loc EXCEPT ![t].nfg_good_lc = findInliers(State)]
    /\ Goto(t, "lc236")
    /\ UNCHANGED solverVars
    /\ ThreadFrame

\* line 236: nfg_ = NonlinearFactorGraph()
Lc236 ==
  \E t \in Threads :
    /\ pc[t] = "lc236"
    /\ nfg_' = <<>>
    /\ Goto(t, "lc237")
    /\ UNCHANGED <<values_, nfg_odom_, nfg_lc_, trajectory_poses, start_id, end_id, solver_type_>>
    /\ UNCHANGED loc
    /\ ThreadFrame

\* line 237: nfg_.add(nfg_odom_)
Lc237 ==
  \E t \in Threads :
    /\ pc[t] = "lc237"
    /\ nfg_' = nfg_ \o nfg_odom_
    /\ Goto(t, "lc238")
    /\ UNCHANGED <<values_, nfg_odom_, nfg_lc_, trajectory_poses, start_id, end_id, solver_type_>>
    /\ UNCHANGED loc
    /\ ThreadFrame

\* line 238: nfg_.add(nfg_good_lc)
Lc238 ==
  \E t \in Threads :
    /\ pc[t] = "lc238"
    /\ nfg_' = nfg_ \o loc[t].nfg_good_lc
    /\ Goto(t, "lc243")
    /\ UNCHANGED <<values_, nfg_odom_, nfg_lc_, trajectory_poses, start_id, end_id, solver_type_>>
    /\ UNCHANGED loc
    /\ ThreadFrame

\* line 243, right-hand side: LevenbergMarquardtOptimizer(nfg_, values_,
\* params).optimize() on copies of the graph and the values
Lc243 ==
  \E t \in Threads :
    /\ pc[t] = "lc243"
    /\ \E o \in Optimize("LM", nfg_, values_) : loc' = [loc EXCEPT ![t].optimizer = <<o>>]
    /\ Goto(t, "lc243w")
    /\ UNCHANGED solverVars
    /\ ThreadFrame

\* line 243, assignment: values_ = the result, unless optimize() threw
Lc243w ==
  \E t \in Threads :
    /\ pc[t] = "lc243w"
    /\ IF loc[t].optimizer[1].ok
       THEN /\ values_' = loc[t].optimizer[1].result
            /\ Goto(t, "done")
            /\ UNCHANGED loc
       ELSE /\ Throw(t)
            /\ UNCHANGED values_
    /\ UNCHANGED <<nfg_, nfg_odom_, nfg_lc_, trajectory_poses, start_id, end_id, solver_type_>>
    /\ ThreadFrame

\* two threads inside update without a lock race on the members they both
\* touch, which is undefined behaviour: besides every interleaving of the
\* statements, the process may die
DataRace ==
  /\ \A t \in Threads : InCall(t)
  /\ pc' = [t \in Threads |-> "dead"]
  /\ UNCHANGED solverVars
  /\ UNCHANGED loc
  /\ ThreadFrame

ConcurrentNext ==
  \/ Enter \/ Odom113 \/ Odom115 \/ Odom120 \/ Odom125 \/ Odom212 \/ Odom215
  \/ Lc225 \/ Lc226 \/ Lc233 \/ Lc236 \/ Lc237 \/ Lc238 \/ Lc243 \/ Lc243w
  \/ DataRace

SpecConcurrent == ConcurrentInit /\ [][ConcurrentNext]_vars

\* the solver after thread a's call and then thread b's, each run alone
SerialAfter(a, b) ==
  UNION {{r2.st : r2 \in update(r1.st, job[b].nfg, job[b].values, job[b].rm)} :
           r1 \in update(origin, job[a].nfg, job[a].values, job[a].rm)}

\* the solver after the two calls made one after the other, in either order
SerialStates == SerialAfter(1, 2) \cup SerialAfter(2, 1)

BothDone == \A t \in Threads : pc[t] = "done"

\* C26: when the callers serialize the two update calls, the solver they
\* leave is one that the calls made one after the other, in one of the two
\* orders, produce.
C26_SerializedCallsAreSerial ==
  (BothDone /\ serialized) => State \in SerialStates

\* without serialization both calls have returned, no exception thrown, and
\* the solver is in a state that neither order of the two calls produces
C26_Witness ==
  /\ BothDone
  /\ ~serialized
  /\ \A t \in Threads : ~loc[t].threw
  /\ State \notin SerialStates

\* ---------------------------------------------------------------------
\* ImuHandler: the buffer of attitude measurements and the lookup in it
\* ---------------------------------------------------------------------

\* largest configured buffer_size_limit_
MaxLimit == 2
\* latest timestamp of a message or a query, in tenths of a second
MaxTime == 3

Times == 0..MaxTime
Quaternions == {"p", "q"}

\* imu_buffer_.size()
CheckBufferSize(buffer) == Cardinality(DOMAIN buffer)

\* the timestamps of the first and of the last entry of a non-empty buffer
FirstStamp(buffer) == CHOOSE k \in DOMAIN buffer : \A j \in DOMAIN buffer : k <= j
LastStamp(buffer) == CHOOSE k \in DOMAIN buffer : \A j \in DOMAIN buffer : k >= j

\* an eviction that drops the entry with the largest timestamp
EraseBegin_DropsNewest(buffer) ==
  [k \in DOMAIN buffer \ {LastStamp(buffer)} |-> buffer[k]]

\* imu_buffer_.erase(imu_buffer_.begin())
EraseBegin(buffer) ==
  [k \in DOMAIN buffer \ {FirstStamp(buffer)} |-> buffer[k]]

\* InsertMsgInBuffer: std::map::insert keeps the entry a timestamp already
\* has (b_convert_imu_frame_ as constructed, false)
InsertMsgInBuffer(buffer, current_time, current_quaternion) ==
  IF current_time \in DOMAIN buffer THEN buffer
  ELSE Put(buffer, current_time, current_quaternion)

\* ImuCallback: the buffer after a message
StoreImuMsg(buffer, limit, current_time, current_quaternion) ==
  LET kept == IF CheckBufferSize(buffer) > limit THEN EraseBegin(buffer) ELSE buffer
  IN InsertMsgInBuffer(kept, current_time, current_quaternion)

\* a lookup that returned
Looked(found, quaternion) == [found |-> found, quaternion |-> quaternion, ended |-> "returned"]
\* a lookup the process died in
LookupDied == [found |-> FALSE, quaternion |-> NoQuaternion, ended |-> "segv"]

\* lines 176-203 with itrTime already positioned: at end(), or on the
\* entry of timestamp itrTime
LookupFrom(buffer, threshold, stamp, atEnd, itrTime) ==
  LET pick == IF ~atEnd /\ itrTime = FirstStamp(buffer)
              THEN [at |-> itrTime, time_diff |-> itrTime - stamp]
              ELSE IF atEnd
              THEN [at |-> LastStamp(buffer), time_diff |-> stamp - LastStamp(buffer)]
              ELSE LET time2 == itrTime
                       time1 == CHOOSE k \in DOMAIN buffer :
                                  /\ k < time2
                                  /\ \A j \in DOMAIN buffer : j < time2 => j <= k
                   IN IF time2 - stamp < stamp - time1
                      THEN [at |-> time2, time_diff |-> time2 - stamp]
                      ELSE [at |-> time1, time_diff |-> stamp - time1]
      fabs == IF pick.time_diff < 0 THEN 0 - pick.time_diff ELSE pick.time_diff
  IN Looked(~(fabs > threshold), buffer[pick.at])

\* GetQuaternionAtTime: the ways the lookup can end.  lower_bound gives the
\* first timestamp not before stamp, or end(); line 174 dereferences the
\* iterator before it is compared with end(), which is undefined for end():
\* the read yields a value nothing uses, or the process dies.
GetQuaternionAtTime(buffer, threshold, stamp) ==
  IF CheckBufferSize(buffer) = 0 THEN {Looked(FALSE, NoQuaternion)}
  ELSE LET notBefore == {k \in DOMAIN buffer : k >= stamp}
       IN IF notBefore = {}
          THEN {LookupFrom(buffer, threshold, stamp, TRUE, 0), LookupDied}
          ELSE {LookupFrom(buffer, threshold, stamp, FALSE,
                           CHOOSE k \in notBefore : \A j \in notBefore : k <= j)}

\* the handler after LoadParameters
ImuInit ==
  /\ SolverConstructed
  /\ ThreadsIdle
  /\ IcpConstructed
  /\ StationConstructed
  /\ imu_buffer_ = EmptyMap
  /\ buffer_size_limit_ \in 0..MaxLimit
  /\ ts_threshold_ \in {0, 1}
  /\ imu_call = NoImuCall

\* the process has not died in a lookup
ImuAlive == imu_call.ended # "segv"

ImuFrame ==
  /\ UNCHANGED <<buffer_size_limit_, ts_threshold_>>
  /\ UNCHANGED solverVars
  /\ UNCHANGED callVars
  /\ UNCHANGED threadVars
  /\ UNCHANGED icpVars
  /\ UNCHANGED stationVars

ImuCallback ==
  \E current_time \in Times, current_quaternion \in Quaternions :
    /\ ImuAlive
    /\ imu_buffer_' = StoreImuMsg(imu_buffer_, buffer_size_limit_, current_time,
                                  current_quaternion)
    /\ imu_call' = [call |-> "ImuCallback", stamp |-> current_time,
                    quaternion |-> current_quaternion, found |-> FALSE,
                    ended |-> "returned", before |-> imu_buffer_]
    /\ ImuFrame

QueryQuaternion ==
  \E stamp \in Times :
    /\ ImuAlive
    /\ \E r \in GetQuaternionAtTime(imu_buffer_, ts_threshold_, stamp) :
          imu_call' = [call |-> "GetQuaternionAtTime", stamp |-> stamp,
                       quaternion |-> r.quaternion, found |-> r.found,
                       ended |-> r.ended, before |-> imu_buffer_]
    /\ UNCHANGED imu_buffer_
    /\ ImuFrame

ImuNext == ImuCallback \/ QueryQuaternion

SpecImu == ImuInit /\ [][ImuNext]_vars

\* the entries of the buffer before the call that the call dropped
Evicted == {k \in DOMAIN imu_call.before : k \notin DOMAIN imu_buffer_}

\* C31: the buffer never holds more than buffer_size_limit_ + 1 entries, and
\* an entry that an ImuCallback dropped had the smallest timestamp of the
\* buffer the callback found.
C31_BufferBounded ==
  /\ CheckBufferSize(imu_buffer_) <= buffer_size_limit_ + 1
  /\ imu_call.call = "ImuCallback"
       => \A k \in Evicted : \A j \in DOMAIN imu_call.before : k <= j

\* a callback found the buffer full, dropped its oldest entry and stored a
\* message that is older than an entry it kept
C31_Witness ==
  /\ imu_call.call = "ImuCallback"
  /\ CheckBufferSize(imu_call.before) = buffer_size_limit_ + 1
  /\ buffer_size_limit_ >= 1
  /\ Evicted = {FirstStamp(imu_call.before)}
  /\ imu_call.stamp \in DOMAIN imu_buffer_
  /\ imu_call.stamp \notin DOMAIN imu_call.before
  /\ imu_call.stamp < LastStamp(imu_buffer_)

\* distance between two times
Distance(a, b) == IF a < b THEN b - a ELSE a - b

\* the buffered timestamp nearest to stamp, the earlier of two equally near
Nearest(buffer, stamp) ==
  CHOOSE k \in DOMAIN buffer :
    \A j \in DOMAIN buffer :
      \/ Distance(k, stamp) < Distance(j, stamp)
      \/ Distance(k, stamp) = Distance(j, stamp) /\ k <= j

\* C32: every lookup returns; on an empty buffer it returns false; otherwise
\* it returns true exactly when the nearest buffered timestamp is within
\* ts_threshold_ of the query, and then outputs that entry's quaternion.
C32_NearestLookupDefined ==
  imu_call.call = "GetQuaternionAtTime"
    => /\ imu_call.ended = "returned"
       /\ imu_call.before = EmptyMap => ~imu_call.found
       /\ imu_call.before # EmptyMap
            => /\ imu_call.found
                   <=> Distance(Nearest(imu_call.before, imu_call.stamp), imu_call.stamp)
                         <= ts_threshold_
               /\ imu_call.found
                   => imu_call.quaternion
                        = imu_call.before[Nearest(imu_call.before, imu_call.stamp)]

\* ---------------------------------------------------------------------
\* LampBaseStation
\* ---------------------------------------------------------------------

\* timer callbacks, and raisings of one flag, in one run
MaxTicks == 3

\* LampBaseStation::RegisterCallbacks
StationRegisterCallbacks == TRUE
\* LampBaseStation::CreatePublishers (the base class's result is dropped)
StationCreatePublishers == TRUE

\* Initialize with a final return true
LampBaseStationInitialize_ReturnsTrue(mapper_ok, params_ok, handlers_ok) ==
  LET done == RunInOrder(<<<<"mapper_.Initialize", mapper_ok>>,
                           <<"LoadParameters", params_ok>>,
                           <<"RegisterCallbacks", StationRegisterCallbacks>>,
                           <<"CreatePublishers", StationCreatePublishers>>,
                           <<"InitializeHandlers", handlers_ok>>>>)
  IN IF Failed(done) THEN {Initialized(done, "false")}
     ELSE {Initialized(done, "true")}

\* LampBaseStation::Initialize: the ways it can end.  A failing step
\* returns false; after the fifth step control reaches the closing brace
\* without a return statement
LampBaseStationInitialize(mapper_ok, params_ok, handlers_ok) ==
  LET done == RunInOrder(<<<<"mapper_.Initialize", mapper_ok>>,
                           <<"LoadParameters", params_ok>>,
                           <<"RegisterCallbacks", StationRegisterCallbacks>>,
                           <<"CreatePublishers", StationCreatePublishers>>,
                           <<"InitializeHandlers", handlers_ok>>>>)
  IN IF Failed(done) THEN {Initialized(done, "false")}
     ELSE {Initialized(done, gave) : gave \in OffTheEnd}

\* LampBaseStation::CheckHandlers
CheckHandlers == TRUE

\* a timer callback that publishes and leaves the flags raised
ProcessTimer_KeepsFlags(new_factor, optimization) ==
  [new_factor |-> new_factor, optimization |-> optimization,
   sent_graph |-> new_factor, sent_map |-> new_factor, sent_optimizer |-> optimization]

\* ProcessTimerCallback on the two flags: the flags after it and what it
\* published
ProcessTimer(new_factor, optimization) ==
  [new_factor |-> IF new_factor THEN FALSE ELSE new_factor,
   optimization |-> IF optimization THEN FALSE ELSE optimization,
   sent_graph |-> new_factor, sent_map |-> new_factor, sent_optimizer |-> optimization]

\* the station as constructed, the flags as the base class left them
StationInit ==
  /\ SolverConstructed
  /\ ThreadsIdle
  /\ IcpConstructed
  /\ ImuConstructed
  /\ b_has_new_factor_ \in BOOLEAN
  /\ b_run_optimization_ \in BOOLEAN
  /\ station_init = NotInitialized
  /\ timer_call = NoTimerCall
  /\ published = NothingPublished
  /\ raised = [new_factor |-> IF b_has_new_factor_ THEN 1 ELSE 0,
               optimization |-> IF b_run_optimization_ THEN 1 ELSE 0]

StationFrame ==
  /\ UNCHANGED solverVars
  /\ UNCHANGED callVars
  /\ UNCHANGED threadVars
  /\ UNCHANGED icpVars
  /\ UNCHANGED imuVars

\* Initialize returned true: the node runs its timer and its handlers
StationRunning == station_init.gave = "true"

StationInitialize ==
  \E mapper_ok \in BOOLEAN, params_ok \in BOOLEAN, handlers_ok \in BOOLEAN :
    /\ ~station_init.invoked
    /\ station_init' \in LampBaseStationInitialize(mapper_ok, params_ok, handlers_ok)
    /\ UNCHANGED <<b_has_new_factor_, b_run_optimization_, timer_call, published, raised>>
    /\ StationFrame

\* a handler of the base class raises a flag that is down
RaiseNewFactor ==
  /\ StationRunning
  /\ ~b_has_new_factor_
  /\ raised.new_factor < MaxTicks
  /\ b_has_new_factor_' = TRUE
  /\ raised' = [raised EXCEPT !.new_factor = @ + 1]
  /\ UNCHANGED <<b_run_optimization_, station_init, timer_call, published>>
  /\ StationFrame

RaiseRunOptimization ==
  /\ StationRunning
  /\ ~b_run_optimization_
  /\ raised.optimization < MaxTicks
  /\ b_run_optimization_' = TRUE
  /\ raised' = [raised EXCEPT !.optimization = @ + 1]
  /\ UNCHANGED <<b_has_new_factor_, station_init, timer_call, published>>
  /\ StationFrame

ProcessTimerCallback ==
  /\ StationRunning
  /\ timer_call.ticks < MaxTicks
  /\ CheckHandlers
  /\ \E r \in {ProcessTimer(b_has_new_factor_, b_run_optimization_)} :
        /\ b_has_new_factor_' = r.new_factor
        /\ b_run_optimization_' = r.optimization
        /\ timer_call' = [ticks |-> timer_call.ticks + 1,
                          new_factor |-> b_has_new_factor_,
                          optimization |-> b_run_optimization_,
                          sent_graph |-> r.sent_graph, sent_map |-> r.sent_map,
                          sent_optimizer |-> r.sent_optimizer]
        /\ published' = [graph_pubs |-> published.graph_pubs + (IF r.sent_graph THEN 1 ELSE 0),
                         map_pubs |-> published.map_pubs + (IF r.sent_map THEN 1 ELSE 0),
                         optimizer_pubs |-> published.optimizer_pubs
                                              + (IF r.sent_optimizer THEN 1 ELSE 0)]
  /\ UNCHANGED <<station_init, raised>>
  /\ StationFrame

StationNext ==
  StationInitialize \/ RaiseNewFactor \/ RaiseRunOptimization \/ ProcessTimerCallback

SpecStation == StationInit /\ [][StationNext]_vars

\* 1 for a raised flag, 0 for a lowered one
Pending(flag) == IF flag THEN 1 ELSE 0

\* C33: a timer callback leaves both flags down, publishes pose graph and
\* map exactly when b_has_new_factor_ was up at entry and the graph for the
\* optimizer exactly when b_run_optimization_ was; so every raising of a flag
\* is answered by one publication, pending or made.
C33_FlagsConsumedOnce ==
  [][/\ (timer_call'.ticks = timer_call.ticks + 1)
          => /\ ~b_has_new_factor_' /\ ~b_run_optimization_'
             /\ timer_call'.sent_graph = b_has_new_factor_
             /\ timer_call'.sent_map = b_has_new_factor_
             /\ timer_call'.sent_optimizer = b_run_optimization_
     /\ published'.graph_pubs + Pending(b_has_new_factor_') = raised'.new_factor
     /\ published'.map_pubs = published'.graph_pubs
     /\ published'.optimizer_pubs + Pending(b_run_optimization_') = raised'.optimization]_vars

\* a third tick that found only b_has_new_factor_ up, after that flag had
\* been consumed once and raised again and the other consumed once
C33_Witness ==
  /\ timer_call.ticks = 3
  /\ timer_call.new_factor /\ ~timer_call.optimization
  /\ timer_call.sent_graph /\ timer_call.sent_map /\ ~timer_call.sent_optimizer
  /\ published = [graph_pubs |-> 2, map_pubs |-> 2, optimizer_pubs |-> 1]
  /\ ~b_has_new_factor_ /\ ~b_run_optimization_

\* C34: Initialize runs mapper initialization, LoadParameters,
\* RegisterCallbacks, CreatePublishers and InitializeHandlers in that order
\* up to the first failure, returns false after a failure and true after
\* five successes.
C34_InitializeInOrder ==
  station_init.invoked
    => LET steps == <<"mapper_.Initialize", "LoadParameters", "RegisterCallbacks",
                      "CreatePublishers", "InitializeHandlers">>
           n == Len(station_init.ran)
       IN /\ n \in 1..5
          /\ \A i \in 1..n : station_init.ran[i] = steps[i]
          /\ \A i \in 1..(n - 1) : station_init.oks[i]
          /\ n < 5 => ~station_init.oks[n]
          /\ station_init.gave = IF station_init.oks[n] THEN "true" ELSE "false"

\* C35: IcpLoopComputation::Initialize runs LoadParameters, RegisterCallbacks
\* and CreatePublishers in that order up to the first step that does not
\* succeed, and returns true exactly when all three succeeded; in particular
\* it goes on to CreatePublishers whenever the registration succeeded.
C35_IcpInitializeInOrder ==
  icp_init.invoked
    => LET steps == <<"LoadParameters", "RegisterCallbacks", "CreatePublishers">>
           n == Len(icp_init.ran)
       IN /\ n \in 1..3
          /\ \A i \in 1..n : icp_init.ran[i] = steps[i]
          /\ \A i \in 1..(n - 1) : icp_init.oks[i]
          /\ n < 3 => ~icp_init.oks[n]
          /\ icp_init.gave = IF icp_init.oks[n] THEN "true" ELSE "false"


====
